---- MODULE Spec2Model ----
(***************************************************************************)
(* Model of bm/models/timesnet.py: the TimesNet encoder.                   *)
(*                                                                         *)
(* Tensors are modelled by their shape (a sequence of dimension sizes) and *)
(* by a symbolic value: the sequence of operations that produced them.     *)
(* An operation that raises (a reshape of the wrong size, a broadcast      *)
(* mismatch, a convolution on the wrong channel count) yields ErrShape and *)
(* the call ends in pc = "error".                                          *)
(***************************************************************************)
EXTENDS Integers, Sequences, FiniteSets, TLC

\* ------------------------------------------------------------------ bounds
MaxSeq == 3
MaxLen == 4
MaxDepth == 2
MaxAmp == 1
MaxKernels == 3
MaxSide == 4
MaxBlockSeq == 6
MaxVal == 3
BatchSize == 2
MegChannels == 2

\* ------------------------------------------------------- program constants
merger_channels == 270
d_model == 32
d_ff == 32
flatten_out_channels == 1024
max_len == 5000
DefaultNumKernels == 6
TokenConvKernel == 3
TokenConvPadding == 1

VARIABLES
    \* the TimesNet instance (self.*), fixed at construction except delta
    sequence_lenth, depth, top_k, num_kernels, merger, subject_layers, delta,
    \* one frame per forward call in flight
    pc, inputs, inputs0, length, cp_length, x, i, enc_out, output, ret, branch,
    \* a TimesBlock.forward call run on its own
    tb_pc, tb_x, frequency_list, top_list, period_list, tb_i, tb_length,
    tb_out, res, tb_res,
    \* an Inception_Block_V1.forward call run on its own
    inc_pc, inc_x, inc_i, res_list, inc_res

instVars == <<sequence_lenth, depth, top_k, num_kernels, merger, subject_layers>>
callVars == <<pc, inputs, inputs0, length, cp_length, x, i, enc_out, output, ret, branch>>
tbVars == <<tb_pc, tb_x, frequency_list, top_list, period_list, tb_i, tb_length,
            tb_out, res, tb_res>>
incVars == <<inc_pc, inc_x, inc_i, res_list, inc_res>>
vars == <<instVars, delta, callVars, tbVars, incVars>>

Calls == {1, 2}

\* ------------------------------------------------------------ shape algebra
ErrShape == <<-1>>

RECURSIVE Prod(_)
Prod(s) == IF s = <<>> THEN 1 ELSE Head(s) * Prod(Tail(s))

Min(a, b) == IF a <= b THEN a ELSE b

\* numpy integer floor division and remainder: a zero divisor gives 0
FloorDiv(a, b) == IF b = 0 THEN 0 ELSE a \div b
Mod(a, b) == IF b = 0 THEN 0 ELSE a % b

SetDim(s, d, n) == [s EXCEPT ![d] = n]

\* tensor.permute(perm), perm given 0-based as in the source
Permute(s, perm) ==
    IF s = ErrShape THEN ErrShape
    ELSE [j \in 1..Len(perm) |-> s[perm[j] + 1]]

\* tensor.reshape(new): the element counts must agree
Reshape(s, new) ==
    IF s = ErrShape THEN ErrShape
    ELSE IF (\A j \in 1..Len(new) : new[j] >= 0) /\ Prod(s) = Prod(new) THEN new
    ELSE ErrShape

\* tensor.reshape(B, -1, N): the middle dimension is inferred
ReshapeInfer(s, B, N) ==
    IF s = ErrShape THEN ErrShape
    ELSE IF B * N = 0 \/ Prod(s) % (B * N) # 0 THEN ErrShape
    ELSE <<B, Prod(s) \div (B * N), N>>

\* torch.cat([a, b], dim=1) of two 3-d tensors
Cat1(a, b) ==
    IF a = ErrShape \/ b = ErrShape THEN ErrShape
    ELSE IF b[2] < 0 \/ a[1] # b[1] \/ a[3] # b[3] THEN ErrShape
    ELSE SetDim(a, 2, a[2] + b[2])

\* t[:, :n, :] on dimension d (1-based)
SliceFirstMut(s, d, n) == s
SliceFirst(s, d, n) ==
    IF s = ErrShape THEN ErrShape ELSE SetDim(s, d, Min(s[d], n))

\* broadcasting of two shapes of the same rank
BroadcastDim(a, b) == IF a = b THEN a ELSE IF a = 1 THEN b ELSE IF b = 1 THEN a ELSE -1
Broadcast(s, t) ==
    IF s = ErrShape \/ t = ErrShape \/ Len(s) # Len(t) THEN ErrShape
    ELSE IF \E j \in 1..Len(s) : BroadcastDim(s[j], t[j]) = -1 THEN ErrShape
    ELSE [j \in 1..Len(s) |-> BroadcastDim(s[j], t[j])]

\* torch.stack(list, dim=-1): all shapes must agree
Stack(list) ==
    IF \E j \in 1..Len(list) : list[j] = ErrShape THEN ErrShape
    ELSE IF list = <<>> \/ \E j \in 1..Len(list) : list[j] # list[1] THEN ErrShape
    ELSE Append(list[1], Len(list))

\* tensor.sum(-1) / tensor.mean(-1)
ReduceLast(s) == IF s = ErrShape THEN ErrShape ELSE SubSeq(s, 1, Len(s) - 1)

\* ------------------------------------------------------ Inception_Block_V1
\* nn.Conv2d(kernel_size=2*i+1, padding=i) of branch i
KernelSize(k) == 2 * k + 1
PaddingMut(k) == 0
Padding(k) == k

\* output size of a stride-1 convolution along one axis
ConvOut(n, kernel, padding) == n + 2 * padding - (kernel - 1) - 1 + 1

Conv2d(s, in_ch, out_ch, kernel, padding) ==
    IF s = ErrShape THEN ErrShape
    ELSE IF Len(s) # 4 \/ s[2] # in_ch THEN ErrShape
    ELSE IF ConvOut(s[3], kernel, padding) < 1 \/ ConvOut(s[4], kernel, padding) < 1
         THEN ErrShape
    ELSE <<s[1], out_ch, ConvOut(s[3], kernel, padding), ConvOut(s[4], kernel, padding)>>

InceptionBranch(s, in_ch, out_ch, k) ==
    Conv2d(s, in_ch, out_ch, KernelSize(k), Padding(k))

InceptionForward(s, in_ch, out_ch, nk) ==
    ReduceLast(Stack([j \in 1..nk |-> InceptionBranch(s, in_ch, out_ch, j - 1)]))

\* self.conv = Sequential(Inception(d_model, d_ff), GELU, Inception(d_ff, d_model))
TimesBlockConv(s, nk) ==
    InceptionForward(InceptionForward(s, d_model, d_ff, nk), d_ff, d_model, nk)

\* ---------------------------------------------------------- FFT_for_Period
\* number of bins of torch.fft.rfft along an axis of length T
Bins(T) == T \div 2 + 1

Spectra(T) == [0..(Bins(T) - 1) -> 0..MaxAmp]

\* frequency_list[0] = 0
ZeroDC(fl) == [fl EXCEPT ![0] = 0]

\* torch.topk(frequency_list, k): k distinct indices, values descending, no
\* unselected value larger than a selected one; ties in any order
TopKLists(fl, k) ==
    IF k > Cardinality(DOMAIN fl) THEN {}
    ELSE { tl \in [1..k -> DOMAIN fl] :
             /\ \A a, b \in 1..k : a # b => tl[a] # tl[b]
             /\ \A a \in 1..(k - 1) : fl[tl[a]] >= fl[tl[a + 1]]
             /\ \A u \in DOMAIN fl :
                  (\A a \in 1..k : tl[a] # u) => fl[u] <= fl[tl[k]] }

\* every top_list some amplitude spectrum of a length-T signal can give
TopLists(T, k) == UNION { TopKLists(ZeroDC(fl), k) : fl \in Spectra(T) }

\* period = x.shape[1] // top_list
Periods(T, tl) == [j \in 1..Len(tl) |-> FloorDiv(T, tl[j])]

\* -------------------------------------------------------------- TimesBlock
BranchLengthMut(seq_len, period) ==
    IF Mod(seq_len, period) # 0 THEN FloorDiv(seq_len, period) * period ELSE seq_len
BranchLength(seq_len, period) ==
    IF Mod(seq_len, period) # 0 THEN (FloorDiv(seq_len, period) + 1) * period
    ELSE seq_len

BranchPad(xs, seq_len, period) ==
    IF Mod(seq_len, period) # 0
    THEN Cat1(xs, <<xs[1], BranchLength(seq_len, period) - seq_len, xs[3]>>)
    ELSE xs

\* out.reshape(B, length // period, period, N).permute(0, 3, 1, 2)
BranchReshape(out, xs, len, period) ==
    Permute(Reshape(out, <<xs[1], FloorDiv(len, period), period, xs[3]>>),
            <<0, 3, 1, 2>>)

\* out.permute(0, 2, 3, 1).reshape(B, -1, N)
BranchBack(out, xs) == ReshapeInfer(Permute(out, <<0, 2, 3, 1>>), xs[1], xs[3])

\* res.append(out[:, :self.seq_len, :])
BranchTrunc(out, seq_len) == SliceFirst(out, 2, seq_len)

Branch(xs, seq_len, period, nk) ==
    BranchTrunc(
        BranchBack(
            TimesBlockConv(
                BranchReshape(BranchPad(xs, seq_len, period), xs,
                              BranchLength(seq_len, period), period),
                nk),
            xs),
        seq_len)

\* stack, softmax weights repeated to [B, T, N, k], weighted sum, residual
Aggregate(list, xs) ==
    Broadcast(
        ReduceLast(Broadcast(Stack(list), <<xs[1], xs[2], xs[3], Len(list)>>)),
        xs)

TimesBlockForward(xs, seq_len, periods, nk) ==
    Aggregate([j \in 1..Len(periods) |-> Branch(xs, seq_len, periods[j], nk)], xs)

\* ------------------------------------------------------------------ tensors
\* a tensor: its shape and the operations that produced its value
Tensor(shape, val) == [shape |-> shape, val |-> val]
NoTensor == Tensor(<<>>, <<>>)
ErrTensor == Tensor(ErrShape, <<>>)
Op(name, idx, tin) == [op |-> name, idx |-> idx, tin |-> tin]
Apply(t, shape, op) ==
    IF shape = ErrShape THEN ErrTensor ELSE Tensor(shape, Append(t.val, op))

\* x.size(-1) / x.shape[-1]
TimeLen(t) == t.shape[Len(t.shape)]

\* the inputs mapping, in insertion order: <<[key, tensor], ...>>
Entry(key, t) == [key |-> key, tensor |-> t]
Meg(m) == (CHOOSE j \in 1..Len(m) : m[j].key = "meg")
GetMeg(m) == m[Meg(m)].tensor
\* inputs["meg"] = t
SetMegMut(m, t) == m
SetMeg(m, t) == [m EXCEPT ![Meg(m)] = Entry("meg", t)]
\* next(iter(inputs.values()))
FirstValue(m) == m[1].tensor

RawMeg(T) == Tensor(<<BatchSize, MegChannels, T>>, <<Op("raw", 0, T)>>)
RawOther(T) == Tensor(<<BatchSize, MegChannels + 1, T>>, <<Op("other", 0, T)>>)
\* the mappings a caller builds: every modality has the same time length
FreshInputs ==
    UNION { { <<Entry("meg", RawMeg(T))>>,
              <<Entry("other", RawOther(T)), Entry("meg", RawMeg(T))>> }
            : T \in 0..MaxLen }

\* ------------------------------------------------ external collaborators
\* ChannelMerger: [B, C, T] -> [B, merger_channels, T]
ChannelMerger(t) ==
    Apply(t, SetDim(t.shape, 2, merger_channels), Op("merger", 0, TimeLen(t)))

\* in_channels["meg"] as __init__ leaves it: meg_dim, then dim ("input" mode)
MegDim(mrg) == IF mrg THEN merger_channels ELSE MegChannels

\* SubjectLayers(meg_dim, dim): [B, C, T] -> [B, dim, T]
SubjectLayers(t, mrg) ==
    Apply(t, SetDim(t.shape, 2, MegDim(mrg)), Op("subject", 0, TimeLen(t)))

\* ------------------------------------------------------------ crop_or_pad
DeltaOf(seq_len, len) == seq_len - len

\* F.pad(x, (0, d)): the last axis grows by d (shrinks when d < 0)
PadRightMut(s, d) == s
PadRight(s, d) ==
    IF s[Len(s)] + d < 0 THEN ErrShape ELSE SetDim(s, Len(s), s[Len(s)] + d)

\* the branches of crop_or_pad, reading self.delta as stored
CropOrPadResult(t, len, seq_len, d) ==
    IF len < seq_len THEN Apply(t, PadRight(t.shape, d), Op("pad", d, len))
    ELSE IF len > seq_len
         THEN Apply(t, SliceFirst(t.shape, 3, seq_len), Op("slice", seq_len, len))
    ELSE t

\* ---------------------------------------------------------- DataEmbedding
\* TokenEmbedding: Conv1d(c_in, d_model, kernel 3, circular padding) on [B, T, C]
TokenEmbedding(s, c_in) ==
    IF s = ErrShape \/ s[3] # c_in \/ s[2] < TokenConvPadding THEN ErrShape
    ELSE <<s[1], d_model, ConvOut(s[2], TokenConvKernel, TokenConvPadding)>>

\* PositionalEmbedding: self.pe[:, :x.size(1)]
PositionalEmbedding(s) == <<1, Min(s[2], max_len), d_model>>

\* value_embedding(x) + position_embedding(x), dropout (x_mark is None)
DataEmbedding(t, c_in) ==
    Apply(t,
          IF t.shape = ErrShape THEN ErrShape
          ELSE Broadcast(Permute(TokenEmbedding(t.shape, c_in), <<0, 2, 1>>),
                         PositionalEmbedding(t.shape)),
          Op("embed", 0, t.shape[2]))

\* ------------------------------------------------------- TimesNet.forward
\* the tensor block i is applied to: always the embedding output x
BlockInputMut(xt, prev, k) == IF k = 0 THEN xt ELSE prev
BlockInput(xt, prev, k) == xt

\* self.model[k](t) with the periods FFT_for_Period found
TimesBlock(t, k, seq_len, periods, nk) ==
    Apply(t, TimesBlockForward(t.shape, seq_len, periods, nk),
          Op("block", k, t.shape[2]))

\* nn.LayerNorm(d_model) / nn.Linear(d_model, flatten_out_channels)
LayerNorm(t) ==
    Apply(t, IF t.shape[Len(t.shape)] = d_model THEN t.shape ELSE ErrShape,
          Op("layer_norm", 0, 0))
Projection(t) ==
    Apply(t, IF t.shape[Len(t.shape)] = d_model
             THEN SetDim(t.shape, Len(t.shape), flatten_out_channels)
             ELSE ErrShape,
          Op("projection", 0, 0))

\* act, dropout, projection, permute(0, 2, 1)
OutputOf(t) ==
    LET p == Projection(Apply(Apply(t, t.shape, Op("act", 0, 0)), t.shape,
                              Op("dropout", 0, 0)))
    IN  Apply(p, Permute(p.shape, <<0, 2, 1>>), Op("permute", 0, 0))

\* F.interpolate(output, length): size of the last axis becomes length
Interpolate(s, n) ==
    IF s = ErrShape \/ n < 1 \/ s[Len(s)] < 1 THEN ErrShape ELSE SetDim(s, Len(s), n)

\* the branch the length restoration takes on the stored self.delta
BranchOf(d) == IF d >= 0 THEN "slice" ELSE "interpolate"

\* output[:, :, :length]  /  F.interpolate(output, length)[0]
RestoreLength(t, d, len) ==
    IF d >= 0 THEN Apply(t, SliceFirst(t.shape, 3, len), Op("restore_slice", 0, len))
    ELSE LET s == Interpolate(t.shape, len)
         IN  Apply(t, IF s = ErrShape THEN ErrShape ELSE Tail(s),
                   Op("restore_interpolate", 0, len))

\* the order of the steps of forward; crop_or_pad is two steps (it stores
\* self.delta, then reads it back for the padding)
PcAfterMut(p) ==
    CASE p = "idle" -> "crop"
      [] p = "crop" -> "crop_ret"
      [] p = "crop_ret" -> "merger"
      [] p = "merger" -> "subject"
      [] p = "subject" -> "embed"
      [] p = "embed" -> "blocks"
      [] p = "blocks" -> "output"
      [] p = "output" -> "restore"
      [] p = "restore" -> "done"
      [] OTHER -> "idle"
PcAfter(p) ==
    CASE p = "idle" -> "merger"
      [] p = "merger" -> "subject"
      [] p = "subject" -> "crop"
      [] p = "crop" -> "crop_ret"
      [] p = "crop_ret" -> "embed"
      [] p = "embed" -> "blocks"
      [] p = "blocks" -> "output"
      [] p = "output" -> "restore"
      [] p = "restore" -> "done"
      [] OTHER -> "idle"

Goto(c, t) == pc' = [pc EXCEPT ![c] = IF t = ErrTensor THEN "error" ELSE PcAfter(pc[c])]

\* forward is entered, with a mapping the caller has just built or with the
\* mapping of the call that has just returned:
\* length = next(iter(inputs.values())).shape[-1]
Forward(c) ==
    /\ pc[c] \in {"idle", "done"}
    /\ \E m \in (IF pc[c] = "idle" THEN FreshInputs
                  ELSE IF Len(GetMeg(inputs[c]).val) < MaxVal THEN {inputs[c]}
                  ELSE {}) :
          /\ inputs' = [inputs EXCEPT ![c] = m]
          /\ inputs0' = [inputs0 EXCEPT ![c] = m]
          /\ length' = [length EXCEPT ![c] = TimeLen(FirstValue(m))]
    /\ pc' = [pc EXCEPT ![c] = PcAfter("idle")]
    /\ cp_length' = [cp_length EXCEPT ![c] = 0]
    /\ x' = [x EXCEPT ![c] = NoTensor]
    /\ i' = [i EXCEPT ![c] = 0]
    /\ enc_out' = [enc_out EXCEPT ![c] = NoTensor]
    /\ output' = [output EXCEPT ![c] = NoTensor]
    /\ ret' = [ret EXCEPT ![c] = NoTensor]
    /\ branch' = [branch EXCEPT ![c] = "none"]
    /\ UNCHANGED <<instVars, delta, tbVars, incVars>>

\* if self.merger is not None: inputs["meg"] = self.merger(inputs["meg"], batch)
ApplyMerger(c) ==
    /\ pc[c] = "merger"
    /\ inputs' = [inputs EXCEPT ![c] =
                    IF merger THEN SetMeg(@, ChannelMerger(GetMeg(@))) ELSE @]
    /\ pc' = [pc EXCEPT ![c] = PcAfter("merger")]
    /\ UNCHANGED <<instVars, delta, inputs0, length, cp_length, x, i, enc_out,
                   output, ret, branch, tbVars, incVars>>

\* if self.subject_layers is not None: inputs["meg"] = self.subject_layers(...)
ApplySubjectLayers(c) ==
    /\ pc[c] = "subject"
    /\ inputs' = [inputs EXCEPT ![c] =
                    IF subject_layers THEN SetMeg(@, SubjectLayers(GetMeg(@), merger))
                    ELSE @]
    /\ pc' = [pc EXCEPT ![c] = PcAfter("subject")]
    /\ UNCHANGED <<instVars, delta, inputs0, length, cp_length, x, i, enc_out,
                   output, ret, branch, tbVars, incVars>>

\* crop_or_pad: length = x.size(-1); self.delta = self.sequence_lenth - length
CropOrPadEnter(c) ==
    /\ pc[c] = "crop"
    /\ cp_length' = [cp_length EXCEPT ![c] = TimeLen(GetMeg(inputs[c]))]
    /\ delta' = DeltaOf(sequence_lenth, TimeLen(GetMeg(inputs[c])))
    /\ pc' = [pc EXCEPT ![c] = PcAfter("crop")]
    /\ UNCHANGED <<instVars, inputs, inputs0, length, x, i, enc_out, output, ret,
                   branch, tbVars, incVars>>

\* crop_or_pad returns; x = x.permute(0, 2, 1)
CropOrPadReturn(c) ==
    /\ pc[c] = "crop_ret"
    /\ LET r == CropOrPadResult(GetMeg(inputs[c]), cp_length[c], sequence_lenth, delta)
           t == IF r = ErrTensor THEN ErrTensor
                ELSE Tensor(Permute(r.shape, <<0, 2, 1>>), r.val)
       IN  /\ x' = [x EXCEPT ![c] = t]
           /\ Goto(c, t)
    /\ UNCHANGED <<instVars, delta, inputs, inputs0, length, cp_length, i, enc_out,
                   output, ret, branch, tbVars, incVars>>

\* x = self.enc_embedding(x, None)
Embedding(c) ==
    /\ pc[c] = "embed"
    /\ LET t == DataEmbedding(x[c], MegDim(merger))
       IN  /\ x' = [x EXCEPT ![c] = t]
           /\ Goto(c, t)
    /\ i' = [i EXCEPT ![c] = 0]
    /\ UNCHANGED <<instVars, delta, inputs, inputs0, length, cp_length, enc_out,
                   output, ret, branch, tbVars, incVars>>

\* one iteration of: for i in range(self.depth):
\*     enc_out = self.layer_norm(self.model[i](x))
\* FFT_for_Period sees whatever amplitude spectrum the embedded signal has
EncoderBlock(c) ==
    /\ pc[c] = "blocks"
    /\ LET src == BlockInput(x[c], enc_out[c], i[c])
           T == src.shape[2]
       IN  \/ /\ T >= 1 /\ top_k <= Bins(T)
              /\ \E tl \in TopLists(T, top_k) :
                   LET t == LayerNorm(TimesBlock(src, i[c], sequence_lenth,
                                                 Periods(T, tl), num_kernels))
                   IN  /\ enc_out' = [enc_out EXCEPT ![c] = t]
                       /\ pc' = [pc EXCEPT ![c] =
                                   IF t = ErrTensor THEN "error"
                                   ELSE IF i[c] + 1 < depth THEN "blocks"
                                   ELSE PcAfter("blocks")]
           \/ /\ ~(T >= 1 /\ top_k <= Bins(T))
              /\ enc_out' = [enc_out EXCEPT ![c] = ErrTensor]
              /\ pc' = [pc EXCEPT ![c] = "error"]
    /\ i' = [i EXCEPT ![c] = @ + 1]
    /\ UNCHANGED <<instVars, delta, inputs, inputs0, length, cp_length, x, output,
                   ret, branch, tbVars, incVars>>

\* output = self.projection(self.dropout(self.act(enc_out))).permute(0, 2, 1)
Output(c) ==
    /\ pc[c] = "output"
    /\ LET t == OutputOf(enc_out[c])
       IN  /\ output' = [output EXCEPT ![c] = t]
           /\ Goto(c, t)
    /\ UNCHANGED <<instVars, delta, inputs, inputs0, length, cp_length, x, i,
                   enc_out, ret, branch, tbVars, incVars>>

\* if self.delta >= 0: return output[:, :, :length]
\* else: return F.interpolate(output, length)[0]
Restore(c) ==
    /\ pc[c] = "restore"
    /\ LET t == RestoreLength(output[c], delta, length[c])
       IN  /\ ret' = [ret EXCEPT ![c] = t]
           /\ Goto(c, t)
    /\ branch' = [branch EXCEPT ![c] = BranchOf(delta)]
    /\ UNCHANGED <<instVars, delta, inputs, inputs0, length, cp_length, x, i,
                   enc_out, output, tbVars, incVars>>

\* the call is over (returned or raised) and the caller drops the mapping;
\* the locals die, the instance keeps self.delta
Return(c) ==
    /\ pc[c] \in {"done", "error"}
    /\ pc' = [pc EXCEPT ![c] = "idle"]
    /\ inputs' = [inputs EXCEPT ![c] = <<>>]
    /\ inputs0' = [inputs0 EXCEPT ![c] = <<>>]
    /\ length' = [length EXCEPT ![c] = 0]
    /\ cp_length' = [cp_length EXCEPT ![c] = 0]
    /\ x' = [x EXCEPT ![c] = NoTensor]
    /\ i' = [i EXCEPT ![c] = 0]
    /\ enc_out' = [enc_out EXCEPT ![c] = NoTensor]
    /\ output' = [output EXCEPT ![c] = NoTensor]
    /\ ret' = [ret EXCEPT ![c] = NoTensor]
    /\ branch' = [branch EXCEPT ![c] = "none"]
    /\ UNCHANGED <<instVars, delta, tbVars, incVars>>

Step(c) ==
    \/ Forward(c)
    \/ ApplyMerger(c)
    \/ ApplySubjectLayers(c)
    \/ CropOrPadEnter(c)
    \/ CropOrPadReturn(c)
    \/ Embedding(c)
    \/ EncoderBlock(c)
    \/ Output(c)
    \/ Restore(c)
    \/ Return(c)

\* ------------------------------------------------------------------- Init
CallsIdle ==
    /\ pc = [c \in Calls |-> "idle"]
    /\ inputs = [c \in Calls |-> <<>>]
    /\ inputs0 = [c \in Calls |-> <<>>]
    /\ length = [c \in Calls |-> 0]
    /\ cp_length = [c \in Calls |-> 0]
    /\ x = [c \in Calls |-> NoTensor]
    /\ i = [c \in Calls |-> 0]
    /\ enc_out = [c \in Calls |-> NoTensor]
    /\ output = [c \in Calls |-> NoTensor]
    /\ ret = [c \in Calls |-> NoTensor]
    /\ branch = [c \in Calls |-> "none"]

TimesBlockIdle ==
    /\ tb_pc = "off"
    /\ tb_x = <<>>
    /\ frequency_list = <<>>
    /\ top_list = <<>>
    /\ period_list = <<>>
    /\ tb_i = 0
    /\ tb_length = 0
    /\ tb_out = <<>>
    /\ res = <<>>
    /\ tb_res = <<>>

InceptionIdle ==
    /\ inc_pc = "off"
    /\ inc_x = <<>>
    /\ inc_i = 0
    /\ res_list = <<>>
    /\ inc_res = <<>>

\* TimesNet.__init__: the configuration, self.delta = 0
Init ==
    /\ sequence_lenth \in 1..MaxSeq
    /\ depth \in 1..MaxDepth
    /\ top_k \in 1..Bins(sequence_lenth)
    /\ num_kernels = DefaultNumKernels
    /\ merger \in BOOLEAN
    /\ subject_layers \in BOOLEAN
    /\ delta = 0
    /\ CallsIdle
    /\ TimesBlockIdle
    /\ InceptionIdle

\* forward calls on one instance, one after the other
Next == Step(1)
Spec == Init /\ [][Next]_vars

\* two threads calling forward on one instance, no merger, no subject layers
InitConc == Init /\ ~merger /\ ~subject_layers /\ depth = 1 /\ top_k = 1
NextConc == \E c \in Calls : Step(c)
SpecConc == InitConc /\ [][NextConc]_vars

\* ------------------------------------------- TimesBlock.forward, stepwise
TbGoto(shape, next) == tb_pc' = IF shape = ErrShape THEN "error" ELSE next

\* xf = torch.fft.rfft(x, dim=1); frequency_list = abs(xf).mean(0).mean(-1)
FFTAmplitudes ==
    /\ tb_pc = "fft"
    /\ \/ /\ tb_x[2] >= 1
          /\ frequency_list' \in Spectra(tb_x[2])
          /\ tb_pc' = "zero_dc"
       \/ /\ tb_x[2] < 1
          /\ frequency_list' = <<>>
          /\ tb_pc' = "error"
    /\ UNCHANGED <<instVars, delta, callVars, incVars, tb_x, top_list, period_list,
                   tb_i, tb_length, tb_out, res, tb_res>>

\* frequency_list[0] = 0
FFTZeroDC ==
    /\ tb_pc = "zero_dc"
    /\ frequency_list' = ZeroDC(frequency_list)
    /\ tb_pc' = "topk"
    /\ UNCHANGED <<instVars, delta, callVars, incVars, tb_x, top_list, period_list,
                   tb_i, tb_length, tb_out, res, tb_res>>

\* _, top_list = torch.topk(frequency_list, k)
FFTTopK ==
    /\ tb_pc = "topk"
    /\ \/ /\ top_list' \in TopKLists(frequency_list, top_k)
          /\ tb_pc' = "period"
       \/ /\ TopKLists(frequency_list, top_k) = {}
          /\ top_list' = <<>>
          /\ tb_pc' = "error"
    /\ UNCHANGED <<instVars, delta, callVars, incVars, tb_x, frequency_list,
                   period_list, tb_i, tb_length, tb_out, res, tb_res>>

\* period = x.shape[1] // top_list; FFT_for_Period returns
FFTPeriod ==
    /\ tb_pc = "period"
    /\ period_list' = Periods(tb_x[2], top_list)
    /\ tb_i' = 0
    /\ tb_pc' = "pad"
    /\ UNCHANGED <<instVars, delta, callVars, incVars, tb_x, frequency_list, top_list,
                   tb_length, tb_out, res, tb_res>>

\* period = period_list[i]; the padding branch
TBPad ==
    /\ tb_pc = "pad"
    /\ tb_length' = BranchLength(sequence_lenth, period_list[tb_i + 1])
    /\ tb_out' = BranchPad(tb_x, sequence_lenth, period_list[tb_i + 1])
    /\ TbGoto(tb_out', "reshape")
    /\ UNCHANGED <<instVars, delta, callVars, incVars, tb_x, frequency_list, top_list,
                   period_list, tb_i, res, tb_res>>

\* out = out.reshape(B, length // period, period, N).permute(0, 3, 1, 2)
TBReshape ==
    /\ tb_pc = "reshape"
    /\ tb_out' = BranchReshape(tb_out, tb_x, tb_length, period_list[tb_i + 1])
    /\ TbGoto(tb_out', "conv")
    /\ UNCHANGED <<instVars, delta, callVars, incVars, tb_x, frequency_list, top_list,
                   period_list, tb_i, tb_length, res, tb_res>>

\* out = self.conv(out)
TBConv ==
    /\ tb_pc = "conv"
    /\ tb_out' = TimesBlockConv(tb_out, num_kernels)
    /\ TbGoto(tb_out', "back")
    /\ UNCHANGED <<instVars, delta, callVars, incVars, tb_x, frequency_list, top_list,
                   period_list, tb_i, tb_length, res, tb_res>>

\* out = out.permute(0, 2, 3, 1).reshape(B, -1, N)
\* res.append(out[:, :self.seq_len, :]); next i
TBBack ==
    /\ tb_pc = "back"
    /\ tb_out' = BranchBack(tb_out, tb_x)
    /\ res' = Append(res, BranchTrunc(tb_out', sequence_lenth))
    /\ tb_i' = tb_i + 1
    /\ TbGoto(tb_out', IF tb_i + 1 < top_k THEN "pad" ELSE "aggregate")
    /\ UNCHANGED <<instVars, delta, callVars, incVars, tb_x, frequency_list, top_list,
                   period_list, tb_length, tb_res>>

\* stack, softmax-weighted sum over the periods, residual connection
TBAggregate ==
    /\ tb_pc = "aggregate"
    /\ tb_res' = Aggregate(res, tb_x)
    /\ TbGoto(tb_res', "done")
    /\ UNCHANGED <<instVars, delta, callVars, incVars, tb_x, frequency_list, top_list,
                   period_list, tb_i, tb_length, tb_out, res>>

\* a TimesBlock(sequence_lenth, d_model, d_ff, num_kernels, top_k) called on an
\* input [B, T, N] with T = sequence_lenth and N = d_model
InitBlock ==
    /\ sequence_lenth \in 1..MaxBlockSeq
    /\ top_k \in 1..Bins(sequence_lenth)
    /\ num_kernels \in 1..MaxKernels
    /\ depth = 1
    /\ merger = FALSE
    /\ subject_layers = FALSE
    /\ delta = 0
    /\ CallsIdle
    /\ InceptionIdle
    /\ tb_pc = "fft"
    /\ tb_x = <<BatchSize, sequence_lenth, d_model>>
    /\ frequency_list = <<>>
    /\ top_list = <<>>
    /\ period_list = <<>>
    /\ tb_i = 0
    /\ tb_length = 0
    /\ tb_out = <<>>
    /\ res = <<>>
    /\ tb_res = <<>>

NextBlock ==
    \/ FFTAmplitudes
    \/ FFTZeroDC
    \/ FFTTopK
    \/ FFTPeriod
    \/ TBPad
    \/ TBReshape
    \/ TBConv
    \/ TBBack
    \/ TBAggregate

SpecBlock == InitBlock /\ [][NextBlock]_vars

\* ------------------------------------- Inception_Block_V1.forward, stepwise
\* res_list.append(self.kernels[i](x))
IncBranch ==
    /\ inc_pc = "loop"
    /\ inc_i < num_kernels
    /\ LET r == InceptionBranch(inc_x, d_model, d_ff, inc_i)
       IN  /\ res_list' = Append(res_list, r)
           /\ inc_pc' = IF r = ErrShape THEN "error" ELSE "loop"
    /\ inc_i' = inc_i + 1
    /\ UNCHANGED <<instVars, delta, callVars, tbVars, inc_x, inc_res>>

\* res = torch.stack(res_list, dim=-1).mean(-1)
IncStackMean ==
    /\ inc_pc = "loop"
    /\ inc_i = num_kernels
    /\ inc_res' = ReduceLast(Stack(res_list))
    /\ inc_pc' = IF inc_res' = ErrShape THEN "error" ELSE "done"
    /\ UNCHANGED <<instVars, delta, callVars, tbVars, inc_x, inc_i, res_list>>

\* an Inception_Block_V1(d_model, d_ff, num_kernels) called on [B, C_in, H, W]
InitInception ==
    /\ sequence_lenth = 1
    /\ top_k = 1
    /\ num_kernels \in 1..MaxKernels
    /\ depth = 1
    /\ merger = FALSE
    /\ subject_layers = FALSE
    /\ delta = 0
    /\ CallsIdle
    /\ TimesBlockIdle
    /\ inc_pc = "loop"
    /\ inc_x \in { <<BatchSize, d_model, H, W>> : H \in 1..MaxSide, W \in 1..MaxSide }
    /\ inc_i = 0
    /\ res_list = <<>>
    /\ inc_res = <<>>

NextInception ==
    \/ IncBranch
    \/ IncStackMean

SpecInception == InitInception /\ [][NextInception]_vars

\* ------------------------------------------------------------------ claims
\* the "meg" tensor a call was handed, its time length, and its value after
\* the optional merger and the optional subject layers
MegIn(c) == GetMeg(inputs0[c])
TActual(c) == TimeLen(MegIn(c))
ValAfterMerger(c) ==
    IF merger THEN Append(MegIn(c).val, Op("merger", 0, TActual(c))) ELSE MegIn(c).val
ValAfterSubject(c) ==
    IF subject_layers THEN Append(ValAfterMerger(c), Op("subject", 0, TActual(c)))
    ELSE ValAfterMerger(c)
Running(c) == pc[c] \notin {"idle", "error"}
CeilDiv(a, b) == (a + b - 1) \div b

C2_LongInputKeepsBatch ==
    \A c \in Calls :
        (pc[c] = "done" /\ ~merger /\ ~subject_layers
            /\ TActual(c) > sequence_lenth) =>
            /\ branch[c] = "interpolate"
            /\ ret[c].shape = <<BatchSize, flatten_out_channels, TActual(c)>>

\* C3: crop_or_pad returns a tensor whose time axis has length sequence_lenth
\* (zero-padded on the right, cut to the first sequence_lenth steps, or the
\* input itself) and stores delta = sequence_lenth - T_actual; the TimesBlock
\* stack is entered with time length sequence_lenth.
C3_CropOrPadLength ==
    \A c \in Calls :
        /\ x[c] # ErrTensor
        /\ pc[c] = "embed" =>
            /\ cp_length[c] = TActual(c)
            /\ delta = sequence_lenth - TActual(c)
            /\ x[c].shape = <<BatchSize, sequence_lenth, GetMeg(inputs[c]).shape[2]>>
            /\ x[c].val =
                 IF TActual(c) < sequence_lenth
                 THEN Append(GetMeg(inputs[c]).val,
                             Op("pad", sequence_lenth - TActual(c), TActual(c)))
                 ELSE IF TActual(c) > sequence_lenth
                 THEN Append(GetMeg(inputs[c]).val,
                             Op("slice", sequence_lenth, TActual(c)))
                 ELSE GetMeg(inputs[c]).val
        /\ pc[c] = "blocks" => x[c].shape = <<BatchSize, sequence_lenth, d_model>>

C3_Witness ==
    \E c \in Calls :
        /\ pc[c] = "blocks"
        /\ TActual(c) < sequence_lenth
        /\ x[c].shape[2] = sequence_lenth

\* C5 (as claimed): forward crops first, so the merger and the subject layers
\* are handed a tensor whose time axis already has length sequence_lenth.
C5_CropBeforeCollaborators ==
    \A c \in Calls :
        ((pc[c] = "merger" /\ merger) \/ (pc[c] = "subject" /\ subject_layers)) =>
            TimeLen(GetMeg(inputs[c])) = sequence_lenth

\* C5 (amended): the steps of forward run in the order merger, subject layers,
\* crop_or_pad, embedding: the merger and the subject layers are handed the
\* "meg" tensor at its raw time length T_actual, crop_or_pad works on their
\* result, and only the embedding is handed time length sequence_lenth.
C5_CollaboratorsBeforeCrop ==
    \A c \in Calls :
        /\ pc[c] = "merger" => (x[c] = NoTensor /\ GetMeg(inputs[c]) = MegIn(c))
        /\ pc[c] = "subject" =>
             (x[c] = NoTensor /\ GetMeg(inputs[c]).val = ValAfterMerger(c))
        /\ pc[c] \in {"crop", "crop_ret"} =>
             (x[c] = NoTensor /\ GetMeg(inputs[c]).val = ValAfterSubject(c))
        /\ pc[c] = "embed" =>
             /\ SubSeq(x[c].val, 1, Len(ValAfterSubject(c))) = ValAfterSubject(c)
             /\ x[c].shape[2] = sequence_lenth
        /\ pc[c] = "blocks" =>
             /\ SubSeq(x[c].val, 1, Len(ValAfterSubject(c))) = ValAfterSubject(c)
             /\ x[c].val[Len(x[c].val)] = Op("embed", 0, sequence_lenth)

C5_Witness ==
    \E c \in Calls :
        /\ pc[c] = "blocks"
        /\ merger /\ subject_layers
        /\ TActual(c) # sequence_lenth
        /\ GetMeg(inputs[c]).val[Len(GetMeg(inputs[c]).val)]
             = Op("subject", 0, TActual(c))

\* C6: forward calls on one instance do not influence each other: whatever
\* the interleaving, each call takes the length-restoration branch, and returns
\* the time length, that it takes and returns when run alone.
C6_CallsIndependent ==
    \A c \in Calls :
        pc[c] = "done" =>
            /\ branch[c] = (IF TActual(c) > sequence_lenth THEN "interpolate"
                            ELSE "slice")
            /\ TimeLen(ret[c]) = TActual(c)

\* C8: every TimesBlock is applied to the embedding output x, the result is
\* layer-normalized, and what reaches the activation and the projection is
\* LayerNorm(block[depth-1](x)).
C8_LastBlockOnly ==
    \A c \in Calls :
        /\ (pc[c] = "blocks" /\ i[c] > 0) =>
             enc_out[c].val = x[c].val \o <<Op("block", i[c] - 1, sequence_lenth),
                                            Op("layer_norm", 0, 0)>>
        /\ pc[c] \in {"output", "restore", "done"} =>
             enc_out[c].val = x[c].val \o <<Op("block", depth - 1, sequence_lenth),
                                            Op("layer_norm", 0, 0)>>
        /\ pc[c] \in {"restore", "done"} =>
             output[c].val = enc_out[c].val \o <<Op("act", 0, 0), Op("dropout", 0, 0),
                                                 Op("projection", 0, 0),
                                                 Op("permute", 0, 0)>>

C8_Witness ==
    \E c \in Calls :
        /\ pc[c] = "output"
        /\ depth >= 2
        /\ enc_out[c].val[Len(enc_out[c].val) - 1].idx = depth - 1

\* C10 (as claimed): forward leaves the caller's inputs mapping unchanged.
C10_InputsUnchanged ==
    \A c \in Calls : pc[c] = "done" => inputs[c] = inputs0[c]

\* C10 (amended): forward leaves the inputs mapping unchanged only when neither
\* a merger nor subject layers are configured; otherwise it replaces
\* inputs["meg"] by the output of the merger / subject layers (the other
\* entries stay), so a second call with the same mapping hands them the
\* already processed tensor.
C10_MegReplaced ==
    \A c \in Calls :
        Running(c) =>
            /\ Len(inputs[c]) = Len(inputs0[c])
            /\ \A j \in 1..Len(inputs[c]) :
                 inputs[c][j].key # "meg" => inputs[c][j] = inputs0[c][j]
            /\ (~merger /\ ~subject_layers) => inputs[c] = inputs0[c]
            /\ (pc[c] = "done" /\ (merger \/ subject_layers)) =>
                 /\ GetMeg(inputs[c]).val = ValAfterSubject(c)
                 /\ GetMeg(inputs[c]) # MegIn(c)

C10_Witness ==
    \E c \in Calls :
        /\ pc[c] = "done"
        /\ merger
        /\ Len(MegIn(c).val) > 1
        /\ GetMeg(inputs[c]) # MegIn(c)

\* C4: for an input [B, T, N] with T = seq_len and periods in 1..T,
\* TimesBlock.forward pads branch i to length_i = ceil(T / p_i) * p_i
\* (T itself when p_i divides T), reshapes to [B, N, length_i / p_i, p_i],
\* and returns, after truncation and aggregation, a tensor of shape [B, T, N].
C4_TimesBlockKeepsShape ==
    (period_list # <<>>
        /\ \A j \in 1..Len(period_list) : period_list[j] \in 1..tb_x[2]) =>
        /\ tb_pc # "error"
        /\ tb_pc \in {"reshape", "conv", "back"} =>
             LET p == period_list[tb_i + 1]
             IN  /\ tb_length = CeilDiv(tb_x[2], p) * p
                 /\ (tb_x[2] % p = 0) => tb_length = tb_x[2]
                 /\ tb_pc = "conv" =>
                      tb_out = <<tb_x[1], tb_x[3], tb_length \div p, p>>
        /\ \A j \in 1..Len(res) : res[j] = tb_x
        /\ tb_pc = "done" => tb_res = tb_x

C4_Witness ==
    /\ tb_pc = "done"
    /\ top_k >= 2
    /\ \A j \in 1..Len(period_list) : period_list[j] \in 1..tb_x[2]
    /\ \E j \in 1..Len(period_list) : tb_x[2] % period_list[j] # 0
    /\ tb_res = tb_x

\* C9: for T >= 2 and 1 <= k <= T // 2 + 1, with any amplitude spectrum, the DC
\* bin is never selected and each of the k periods FFT_for_Period returns is
\* an integer in 1..T.
C9_PeriodsPositive ==
    (tb_pc \notin {"fft", "zero_dc", "topk", "period", "off"} /\ tb_x[2] >= 2
        /\ top_k <= Bins(tb_x[2])) =>
        \A j \in 1..Len(period_list) :
            /\ top_list[j] # 0
            /\ period_list[j] \in 1..tb_x[2]

\* C7: every branch i of the Inception block (kernel 2i+1, padding i, stride 1)
\* gives spatial size H x W, so the branches stack and their mean has shape
\* [B, C_out, H, W].
C7_InceptionKeepsSize ==
    /\ inc_pc # "error"
    /\ \A j \in 1..Len(res_list) : res_list[j] = <<inc_x[1], d_ff, inc_x[3], inc_x[4]>>
    /\ inc_pc = "done" => inc_res = <<inc_x[1], d_ff, inc_x[3], inc_x[4]>>

C7_Witness ==
    /\ inc_pc = "done"
    /\ num_kernels >= 3
    /\ inc_x[3] # inc_x[4]
    /\ inc_res = <<inc_x[1], d_ff, inc_x[3], inc_x[4]>>

====
